---- MODULE Spec2Model ----
(***************************************************************************)
(* State-machine model of the websocket core of example-axum-api:          *)
(*   src/websocket/chat.rs    private chat (registry of per-user channels) *)
(*   src/websocket/group.rs   group chat (one shared broadcast channel)    *)
(*   src/websocket/handler.rs echo endpoint and validate_user              *)
(*   src/auth/middleware.rs, src/auth/extractors.rs   identity             *)
(*   src/main.rs, src/routes.rs                       the two route tables *)
(* A connection (slot) carries one upgrade request; an upgraded connection *)
(* becomes a session made of the session function and its two spawned      *)
(* tasks. Steps are cut at the await points of the code.                   *)
(***************************************************************************)
EXTENDS Integers, Sequences, FiniteSets, TLC

\* ---------------------------------------------------------------- bounds
\* Number of client connections (each carries one upgrade request).
NSlots == 2
\* Total number of frames the peers send over all connections.
MaxFrames == 2

\* ------------------------------------------------------ program constants
\* broadcast::channel(100): backlog of a channel.
Capacity == 100
\* Option::None for a registry lookup / lock owner (slots are 1..NSlots).
NoSlot == 0

Slots == 1..NSlots

\* ------------------------------------------------- external collaborators
\* Ids that occur in requests; "x" names a user that is not in the table.
UserIds == {"a", "b", "x"}
\* Rows of table users (select ... from users where user_id = $1).
Users == {"a", "b"}
\* Ids of groups that occur in requests; "h" is not in the table.
GroupIds == {"g", "k", "h"}
\* Rows of table groups.
Groups == {"g", "k"}
\* Text payloads a peer sends.
Texts == {"hi", "yo"}
\* Values SystemTime::now() takes (seconds since the epoch).
Timestamps == {1762293600, 1762293601}

\* Authorization header of a request: absent, a bearer token that does not
\* verify, or a bearer token whose claims carry user_id u.
NoAuth == "no-authorization"
BadToken == "bad-token"
Credentials == {NoAuth, BadToken} \cup UserIds

\* A routing header (receiver_id, group_id): absent, not visible ASCII
\* (to_str fails), or a string.
Missing == "header-missing"
Malformed == "header-malformed"

NoId == ""

\* validate_user: Some(user) iff a row exists.
validate_user(user_id) == user_id \in Users

\* get_by_id: Ok(group) iff a row exists.
get_by_id(group_id) == group_id \in Groups

\* verify_token: Ok(claims) iff the token decodes and validates.
verify_token(token) == token \in UserIds

\* auth_middleware: the response it short-circuits with, or the claims it
\* stores in the request extensions. [ok, status, body, claims, trace].
auth_middleware(token) ==
    IF token = NoAuth
    THEN [ok |-> FALSE, status |-> 401,
          body |-> "Missing or invalid Authorization header",
          claims |-> NoId, trace |-> << >>]
    ELSE IF ~verify_token(token)
    THEN [ok |-> FALSE, status |-> 401, body |-> "Invalid or expired token",
          claims |-> NoId, trace |-> <<"verify_token">>]
    ELSE [ok |-> TRUE, status |-> 0, body |-> "",
          claims |-> token, trace |-> <<"verify_token">>]

\* The route tables. routes.rs wraps the websocket routes in auth_middleware;
\* main.rs mounts the same handlers with no layer.
Routers == {"main", "routes"}
Layered(router, route) == router = "routes"

\* The request extensions a handler sees: what the layer left there.
Extensions(router, route, token) ==
    IF Layered(router, route)
    THEN auth_middleware(token)
    ELSE [ok |-> TRUE, status |-> 0, body |-> "", claims |-> NoId, trace |-> << >>]

\* AuthUser::from_request_parts: the claims of the extensions, or 401.
AuthUser(ext) ==
    IF ext.claims = NoId
    THEN [ok |-> FALSE, status |-> 401, body |-> "Unauthorized"]
    ELSE [ok |-> TRUE, status |-> 0, body |-> ""]

Reject(status, body, trace) ==
    [upgrade |-> FALSE, status |-> status, body |-> body, trace |-> trace,
     sender_id |-> NoId, target |-> NoId]

Upgrade(trace, sender_id, target) ==
    [upgrade |-> TRUE, status |-> 101, body |-> "",
     trace |-> trace \o <<"on_upgrade">>,
     sender_id |-> sender_id, target |-> target]

\* private_chat_handler, with the layer and the extractor that run before it.
private_chat_handler_nolookup(router, token, header) ==
    LET ext == Extensions(router, "chat", token)
        au == AuthUser(ext)
    IN  IF ~ext.ok THEN Reject(ext.status, ext.body, ext.trace)
        ELSE IF ~au.ok THEN Reject(au.status, au.body, ext.trace)
        ELSE IF header = Missing
        THEN Reject(400, "Missing receiver_id header", ext.trace)
        ELSE IF header = Malformed
        THEN Reject(400, "Invalid recevier_id header format", ext.trace)
        ELSE Upgrade(ext.trace, ext.claims, header)

private_chat_handler_early(router, token, header) ==
    LET ext == Extensions(router, "chat", token)
        au == AuthUser(ext)
        trace == ext.trace \o <<"validate_user", "validate_user">>
    IN  IF ~ext.ok THEN Reject(ext.status, ext.body, ext.trace)
        ELSE IF ~au.ok THEN Reject(au.status, au.body, ext.trace)
        ELSE IF header = Missing
        THEN Reject(400, "Missing receiver_id header", trace)
        ELSE IF header = Malformed
        THEN Reject(400, "Invalid recevier_id header format", trace)
        ELSE IF validate_user(ext.claims) /\ validate_user(header)
        THEN Upgrade(trace, ext.claims, header)
        ELSE Reject(400, "Invalid user_id or receiver_id", trace)

private_chat_handler(router, token, header) ==
    LET ext == Extensions(router, "chat", token)
        au == AuthUser(ext)
        trace == ext.trace \o <<"validate_user", "validate_user">>
    IN  IF ~ext.ok THEN Reject(ext.status, ext.body, ext.trace)
        ELSE IF ~au.ok THEN Reject(au.status, au.body, ext.trace)
        ELSE IF header = Missing
        THEN Reject(400, "Missing receiver_id header", ext.trace)
        ELSE IF header = Malformed
        THEN Reject(400, "Invalid recevier_id header format", ext.trace)
        ELSE IF validate_user(ext.claims) /\ validate_user(header)
        THEN Upgrade(trace, ext.claims, header)
        ELSE Reject(400, "Invalid user_id or receiver_id", trace)

\* group_chat_handler, with the layer and the extractor that run before it.
group_chat_handler_anygroup(router, token, header) ==
    LET ext == Extensions(router, "group", token)
        au == AuthUser(ext)
        trace == ext.trace \o <<"validate_user", "get_by_id">>
    IN  IF ~ext.ok THEN Reject(ext.status, ext.body, ext.trace)
        ELSE IF ~au.ok THEN Reject(au.status, au.body, ext.trace)
        ELSE IF header = Missing
        THEN Reject(400, "Missing group_id header", ext.trace)
        ELSE IF header = Malformed
        THEN Reject(400, "Invalid group_id header", ext.trace)
        ELSE IF validate_user(ext.claims)
        THEN Upgrade(trace, ext.claims, header)
        ELSE Reject(400, "Invalid group_id or user_id", trace)

group_chat_handler(router, token, header) ==
    LET ext == Extensions(router, "group", token)
        au == AuthUser(ext)
        trace == ext.trace \o <<"validate_user", "get_by_id">>
    IN  IF ~ext.ok THEN Reject(ext.status, ext.body, ext.trace)
        ELSE IF ~au.ok THEN Reject(au.status, au.body, ext.trace)
        ELSE IF header = Missing
        THEN Reject(400, "Missing group_id header", ext.trace)
        ELSE IF header = Malformed
        THEN Reject(400, "Invalid group_id header", ext.trace)
        ELSE IF validate_user(ext.claims) /\ get_by_id(header)
        THEN Upgrade(trace, ext.claims, header)
        ELSE Reject(400, "Invalid group_id or user_id", trace)

\* ws_handler (echo endpoint): the user_id comes from the query string; the
\* handler takes no AuthUser.
ws_handler_any(router, token, user_id) ==
    LET ext == Extensions(router, "ws", token)
        trace == ext.trace \o <<"validate_user">>
    IN  IF ~ext.ok THEN Reject(ext.status, ext.body, ext.trace)
        ELSE Upgrade(trace, user_id, NoId)

ws_handler(router, token, user_id) ==
    LET ext == Extensions(router, "ws", token)
        trace == ext.trace \o <<"validate_user">>
    IN  IF ~ext.ok THEN Reject(ext.status, ext.body, ext.trace)
        ELSE IF validate_user(user_id)
        THEN Upgrade(trace, user_id, NoId)
        ELSE Reject(401, "Unauthorized: Invalid user_id", trace)

\* ------------------------------------------------------------------ state
VARIABLES
    router,     \* which route table serves the requests
    kind,       \* per connection: "none", "rejected", "chat", "group", "echo"
    sender_id,  \* per session: the id the handler passed on (user.user_id)
    target,     \* per session: receiver_id (chat) or group_id (group)
    pc,         \* per session: position of the session function
    send_pc,    \* per session: position of send_task
    recv_pc,    \* per session: position of recv_task
    cancelled,  \* per session: abort() was called on a recv_task in mid-relay
    frame,      \* per session: the text frame recv_task is relaying
    inbox,      \* per session: messages pending in its broadcast Receiver
    lagged,     \* per session: its Receiver was overrun (next recv is Lagged)
    registry,   \* PrivateChatState.connections: user id -> channel (its slot)
    latest,     \* per user id: the session that inserted under it last
    frames,     \* frames read from peers so far
    removes,    \* per session: connections.remove calls it made
    event       \* what the last step did towards the outside

vars == <<router, kind, sender_id, target, pc, send_pc, recv_pc, cancelled,
          frame, inbox, lagged, registry, latest, frames, removes, event>>

NoEvent == [type |-> "none"]

Init ==
    /\ router \in Routers
    /\ kind = [s \in Slots |-> "none"]
    /\ sender_id = [s \in Slots |-> NoId]
    /\ target = [s \in Slots |-> NoId]
    /\ pc = [s \in Slots |-> "idle"]
    /\ send_pc = [s \in Slots |-> "idle"]
    /\ recv_pc = [s \in Slots |-> "idle"]
    /\ cancelled = [s \in Slots |-> FALSE]
    /\ frame = [s \in Slots |-> ""]
    /\ inbox = [s \in Slots |-> << >>]
    /\ lagged = [s \in Slots |-> FALSE]
    /\ registry = [u \in UserIds |-> NoSlot]
    /\ latest = [u \in UserIds |-> NoSlot]
    /\ frames = 0
    /\ removes = [s \in Slots |-> 0]
    /\ event = NoEvent

\* ------------------------------------------------------------ the registry
\* The map is reached only through connections.write().await and
\* connections.read().await, and no guard lives across an await: each guarded
\* block below is one step.

\* HashMap::insert: overwrites.
Insert_keep(reg, user_id, tx) ==
    IF reg[user_id] = NoSlot THEN [reg EXCEPT ![user_id] = tx] ELSE reg
Insert(reg, user_id, tx) == [reg EXCEPT ![user_id] = tx]

\* HashMap::remove: by key, whatever the value.
Remove_skip(reg, user_id) == reg
Remove(reg, user_id) == [reg EXCEPT ![user_id] = NoSlot]

\* HashMap::get.
Get(reg, user_id) == reg[user_id]

\* ------------------------------------------------------------- broadcast
\* A Receiver lives in its send_task; it is dropped when that task ends.
RxAlive(s) == send_pc[s] = "recv"

\* Sender::send for one receiver's view of the channel: the value is queued;
\* at capacity the oldest value is overwritten and the receiver lags.
Enqueue_front(q, msg) == <<msg>> \o q
Enqueue(q, msg) ==
    IF Len(q) < Capacity THEN Append(q, msg) ELSE Append(Tail(q), msg)

\* Sender::send to the receivers in rs: nothing is stored for a dropped one.
tx_send_skewed(inb, rs, msg) ==
    [s \in Slots |-> IF s \notin rs THEN inb[s]
                     ELSE IF s % 2 = 1 THEN <<msg>> \o inb[s]
                     ELSE Enqueue(inb[s], msg)]
tx_send_twice(inb, rs, msg) ==
    [s \in Slots |-> IF s \in rs THEN Enqueue(Enqueue(inb[s], msg), msg) ELSE inb[s]]
tx_send(inb, rs, msg) ==
    [s \in Slots |-> IF s \in rs THEN Enqueue(inb[s], msg) ELSE inb[s]]

tx_lag(lag, inb, rs) ==
    [s \in Slots |-> IF s \in rs /\ Len(inb[s]) >= Capacity THEN TRUE ELSE lag[s]]

\* ------------------------------------------------------------- envelopes
ChatMessage_swapped(sender, receiver, msg, timestamp) ==
    [sender_id |-> receiver, receiver_id |-> sender, message |-> msg,
     timestamp |-> timestamp]
ChatMessage(sender, receiver, msg, timestamp) ==
    [sender_id |-> sender, receiver_id |-> receiver, message |-> msg,
     timestamp |-> timestamp]

\* serde_json::to_string(&chat_message), with the fallback of send_to_user.
chat_response_plain(chat_message, ser_ok) == chat_message
chat_response(chat_message, ser_ok) ==
    IF ser_ok THEN chat_message
    ELSE [error |-> "Failed to serialize message: ",
          sender_id |-> chat_message.sender_id,
          receiver_id |-> chat_message.receiver_id,
          message |-> chat_message.message]

\* serde_json::to_string of a struct of Strings and a u64 returns Ok.
SerdeResults == {TRUE}

\* send_to_user: the channels the message is sent on.
send_to_user_echo(reg, sender, receiver) ==
    {Get(reg, receiver), Get(reg, sender)} \ {NoSlot}
send_to_user_shared(reg, sender, receiver) ==
    {c \in Slots : kind[c] = "group"}
        \cup (IF Get(reg, receiver) # NoSlot THEN {Get(reg, receiver)} ELSE {})
send_to_user(reg, sender, receiver) ==
    IF Get(reg, receiver) # NoSlot THEN {Get(reg, receiver)} ELSE {}

\* ---------------------------------------------------------------- requests
\* Connections are numbered in the order their requests arrive.
Fresh(s) == kind[s] = "none" /\ \A t \in Slots : t < s => kind[t] # "none"

\* The handler answered: the connection is rejected, or handed to on_upgrade.
Answer(s, route, token, header, resp) ==
    /\ event' = [type |-> "http", slot |-> s, route |-> route, token |-> token,
                 header |-> header, resp |-> resp]
    /\ kind' = [kind EXCEPT ![s] = IF resp.upgrade THEN route ELSE "rejected"]
    /\ pc' = [pc EXCEPT ![s] = IF resp.upgrade THEN "upgraded" ELSE "rejected"]
    /\ sender_id' = [sender_id EXCEPT ![s] = resp.sender_id]
    /\ target' = [target EXCEPT ![s] = resp.target]
    /\ UNCHANGED <<router, send_pc, recv_pc, cancelled, frame, inbox, lagged, registry, latest, frames, removes>>

\* GET /chat (routes.rs), GET /ws/chat (main.rs).
ChatRequest(s, token, header) ==
    /\ Fresh(s)
    /\ Answer(s, "chat", token, header, private_chat_handler(router, token, header))

\* GET /group-chat (routes.rs), GET /ws/group (main.rs).
GroupRequest(s, token, header) ==
    /\ Fresh(s)
    /\ Answer(s, "group", token, header, group_chat_handler(router, token, header))

\* GET /ws?user_id=...
WsRequest(s, token, user_id) ==
    /\ Fresh(s)
    /\ Answer(s, "echo", token, user_id, ws_handler(router, token, user_id))

\* ------------------------------------------------------------ private chat
\* private_chat up to its select!: the channel is created, tx is inserted
\* under the write guard, both tasks are spawned.
Register(s) ==
    /\ kind[s] = "chat"
    /\ pc[s] = "upgraded"
    /\ registry' = Insert(registry, sender_id[s], s)
    /\ latest' = [latest EXCEPT ![sender_id[s]] = s]
    /\ send_pc' = [send_pc EXCEPT ![s] = "recv"]
    /\ recv_pc' = [recv_pc EXCEPT ![s] = "next"]
    /\ pc' = [pc EXCEPT ![s] = "select"]
    /\ event' = [type |-> "insert", slot |-> s, had |-> Get(registry, sender_id[s])]
    /\ UNCHANGED <<router, kind, sender_id, target, cancelled, frame, inbox,
                   lagged, frames, removes>>

\* abort() on a task: one parked at an await point is dropped there; a
\* recv_task that holds a frame it is relaying is marked and either runs on
\* to its next await point or was parked on the lock; a finished task is
\* left as it is.
AbortSend_leak(p) == p
AbortSend(p) == IF p = "recv" THEN "aborted" ELSE p
AbortRecv(p) == IF p = "next" THEN "aborted" ELSE p

\* Where the session function goes after select!: the group session returns;
\* the private one goes on to its cleanup.
AfterSelect_skip(k) == "closed"
AfterSelect(k) == IF k = "chat" THEN "closing" ELSE "closed"

\* tokio::select! over the two join handles: the first finished task wins and
\* the other is aborted. The Receiver and the socket halves go with the tasks.
Select(s) ==
    /\ pc[s] = "select"
    /\ send_pc[s] = "done" \/ recv_pc[s] = "done"
    /\ send_pc' = [send_pc EXCEPT ![s] = AbortSend(send_pc[s])]
    /\ recv_pc' = [recv_pc EXCEPT ![s] = AbortRecv(recv_pc[s])]
    /\ cancelled' = [cancelled EXCEPT ![s] = recv_pc[s] \in {"relay", "sending"}]
    /\ inbox' = [inbox EXCEPT ![s] = << >>]
    /\ lagged' = [lagged EXCEPT ![s] = FALSE]
    /\ pc' = [pc EXCEPT ![s] = AfterSelect(kind[s])]
    /\ event' = NoEvent
    /\ UNCHANGED <<router, kind, sender_id, target, frame, registry, latest, frames,
                   removes>>

\* private_chat returns after its cleanup block.
AfterRemove_again == "closing"
AfterRemove_restart == "upgraded"
AfterRemove == "closed"

\* connections.remove(&sender_id) under the write guard; the function returns.
Deregister(s) ==
    /\ pc[s] = "closing"
    /\ registry' = Remove(registry, sender_id[s])
    /\ removes' = [removes EXCEPT ![s] = @ + 1]
    /\ pc' = [pc EXCEPT ![s] = AfterRemove]
    /\ event' = [type |-> "remove", slot |-> s, had |-> Get(registry, sender_id[s])]
    /\ UNCHANGED <<router, kind, sender_id, target, send_pc, recv_pc, cancelled,
                   frame, inbox, lagged, latest, frames>>

\* send_task, one turn of its loop: rx.recv().await returned Ok(msg) and
\* sender.send(Message::Text(msg)).await returned Ok or Err; or recv returned
\* Err(Lagged) and `while let Ok` ends. The Receiver goes with the task.
Forward_lossy(s, ok) ==
    /\ kind[s] \in {"chat", "group"}
    /\ send_pc[s] = "recv"
    /\ lagged[s] \/ inbox[s] # << >>
    /\ send_pc' = [send_pc EXCEPT ![s] = IF ok /\ ~lagged[s] THEN "recv" ELSE "done"]
    /\ inbox' = [inbox EXCEPT ![s] = << >>]
    /\ lagged' = [lagged EXCEPT ![s] = FALSE]
    /\ event' = IF lagged[s] THEN NoEvent
                ELSE [type |-> "write", slot |-> s, msg |-> Head(inbox[s]),
                      ok |-> ok]
    /\ UNCHANGED <<router, kind, sender_id, target, pc, recv_pc, cancelled, frame,
                   registry, latest, frames, removes>>
Forward(s, ok) ==
    /\ kind[s] \in {"chat", "group"}
    /\ send_pc[s] = "recv"
    /\ lagged[s] \/ inbox[s] # << >>
    /\ send_pc' = [send_pc EXCEPT ![s] = IF ok /\ ~lagged[s] THEN "recv" ELSE "done"]
    /\ inbox' = [inbox EXCEPT ![s] = IF ok /\ ~lagged[s] THEN Tail(@) ELSE << >>]
    /\ lagged' = [lagged EXCEPT ![s] = FALSE]
    /\ event' = IF lagged[s] THEN NoEvent
                ELSE [type |-> "write", slot |-> s, msg |-> Head(inbox[s]),
                      ok |-> ok]
    /\ UNCHANGED <<router, kind, sender_id, target, pc, recv_pc, cancelled, frame,
                   registry, latest, frames, removes>>

\* What receiver.next().await can yield besides a text frame.
EndFrames == {"close", "error", "end"}
IgnoredFrames == {"binary", "ping", "pong"}

\* recv_task of a private session: a text frame arrived; send_to_user starts.
ChatText(s, text) ==
    /\ kind[s] = "chat"
    /\ recv_pc[s] = "next"
    /\ frames < MaxFrames
    /\ frames' = frames + 1
    /\ frame' = [frame EXCEPT ![s] = text]
    /\ recv_pc' = [recv_pc EXCEPT ![s] = "relay"]
    /\ event' = NoEvent
    /\ UNCHANGED <<router, kind, sender_id, target, pc, send_pc, cancelled, inbox,
                   lagged, registry, latest, removes>>

\* recv_task: Close, Some(Err) or None: the loop ends.
RecvEnd(s, f) ==
    /\ kind[s] \in {"chat", "group"}
    /\ recv_pc[s] = "next"
    /\ recv_pc' = [recv_pc EXCEPT ![s] = "done"]
    /\ event' = NoEvent
    /\ UNCHANGED <<router, kind, sender_id, target, pc, send_pc, cancelled, frame,
                   inbox, lagged, registry, latest, frames, removes>>

\* recv_task: any other frame: `_ => {}`.
RecvIgnored_break(s, f) ==
    /\ kind[s] \in {"chat", "group"}
    /\ recv_pc[s] = "next"
    /\ recv_pc' = [recv_pc EXCEPT ![s] = "done"]
    /\ event' = [type |-> "ignored", slot |-> s]
    /\ UNCHANGED <<router, kind, sender_id, target, pc, send_pc,
                   cancelled, frame, inbox, lagged, registry, latest, frames, removes>>
RecvIgnored(s, f) ==
    /\ kind[s] \in {"chat", "group"}
    /\ recv_pc[s] = "next"
    /\ event' = [type |-> "ignored", slot |-> s]
    /\ UNCHANGED <<router, kind, sender_id, target, pc, send_pc, recv_pc,
                   cancelled, frame, inbox, lagged, registry, latest, frames, removes>>

\* An aborted recv_task that was parked at connections.read().await is
\* dropped there.
AbortParked(s) ==
    /\ recv_pc[s] = "relay"
    /\ cancelled[s]
    /\ recv_pc' = [recv_pc EXCEPT ![s] = "aborted"]
    /\ frame' = [frame EXCEPT ![s] = ""]
    /\ cancelled' = [cancelled EXCEPT ![s] = FALSE]
    /\ event' = NoEvent
    /\ UNCHANGED <<router, kind, sender_id, target, pc, send_pc, inbox, lagged,
                   registry, latest, frames, removes>>

\* send_to_user under the read guard: get(receiver_id), build, serialize,
\* tx.send; the guard is dropped and the loop is back at receiver.next().
Relay(s, timestamp, ser_ok) ==
    /\ recv_pc[s] = "relay"
    /\ LET on == send_to_user(registry, sender_id[s], target[s])
           to == {c \in on : RxAlive(c)}
           msg == chat_response(
                      ChatMessage(sender_id[s], target[s], frame[s], timestamp),
                      ser_ok)
       IN  /\ inbox' = tx_send(inbox, to, msg)
           /\ lagged' = tx_lag(lagged, inbox, to)
           /\ event' = [type |-> "relay", slot |-> s, message |-> frame[s],
                        on |-> on, to |-> to]
    /\ recv_pc' = [recv_pc EXCEPT ![s] = IF cancelled[s] THEN "aborted" ELSE "next"]
    /\ cancelled' = [cancelled EXCEPT ![s] = FALSE]
    /\ frame' = [frame EXCEPT ![s] = ""]
    /\ UNCHANGED <<router, kind, sender_id, target, pc, send_pc, registry, latest,
                   frames, removes>>

\* -------------------------------------------------------------- group chat
\* Columns user_name of users and name of groups.
user_name(user_id) == IF user_id = "a" THEN "alice" ELSE "bob"
group_name(group_id) == IF group_id = "g" THEN "team" ELSE "crew"

GroupMessage(id, name, message) ==
    [id |-> id, name |-> name, message |-> message]

\* serde_msg: serde_json::to_string(&group_msg), with its fallback.
serde_msg(group_msg, ser_ok) ==
    IF ser_ok THEN group_msg
    ELSE [error |-> "Failed to serialize message: ",
          message |-> group_msg.message]

\* The live Receivers of GroupState.tx: one channel for every group id.
Subscribers_none == {}
Subscribers == {c \in Slots : kind[c] = "group" /\ RxAlive(c)}

\* group_chat up to its select!: subscribe, the welcome message sent on the
\* shared channel, both tasks spawned.
GroupStart_quiet(s, ser_ok) ==
    /\ kind[s] = "group"
    /\ pc[s] = "upgraded"
    /\ event' = NoEvent
    /\ send_pc' = [send_pc EXCEPT ![s] = "recv"]
    /\ recv_pc' = [recv_pc EXCEPT ![s] = "next"]
    /\ pc' = [pc EXCEPT ![s] = "select"]
    /\ UNCHANGED <<router, kind, sender_id, target, cancelled, frame, inbox,
                   lagged, registry, latest, frames, removes>>
GroupStart(s, ser_ok) ==
    /\ kind[s] = "group"
    /\ pc[s] = "upgraded"
    /\ LET to == Subscribers \cup {s}
           msg == serde_msg(
                      GroupMessage(target[s], group_name(target[s]),
                          "Welcome " \o user_name(sender_id[s]) \o " to "
                              \o group_name(target[s])),
                      ser_ok)
       IN  /\ inbox' = tx_send(inbox, to, msg)
           /\ lagged' = tx_lag(lagged, inbox, to)
           /\ event' = [type |-> "join", slot |-> s, to |-> to]
    /\ send_pc' = [send_pc EXCEPT ![s] = "recv"]
    /\ recv_pc' = [recv_pc EXCEPT ![s] = "next"]
    /\ pc' = [pc EXCEPT ![s] = "select"]
    /\ UNCHANGED <<router, kind, sender_id, target, cancelled, frame, registry, latest, frames, removes>>

\* recv_task of a group session: a text frame is wrapped and sent on the
\* shared channel.
GroupText(s, text, ser_ok) ==
    /\ kind[s] = "group"
    /\ recv_pc[s] = "next"
    /\ frames < MaxFrames
    /\ frames' = frames + 1
    /\ LET to == Subscribers
           msg == serde_msg(
                      GroupMessage(sender_id[s], user_name(sender_id[s]), text),
                      ser_ok)
       IN  /\ inbox' = tx_send(inbox, to, msg)
           /\ lagged' = tx_lag(lagged, inbox, to)
           /\ event' = [type |-> "publish", slot |-> s, message |-> text,
                        to |-> to]
    /\ UNCHANGED <<router, kind, sender_id, target, pc, send_pc, recv_pc,
                   cancelled, frame, registry, latest, removes>>

\* ---------------------------------------------------------- echo endpoint
\* handle_socket: the welcome message; its send result is dropped.
EchoStart(s, ok) ==
    /\ kind[s] = "echo"
    /\ pc[s] = "upgraded"
    /\ pc' = [pc EXCEPT ![s] = "echo"]
    /\ event' = [type |-> "write", slot |-> s, ok |-> ok,
                 msg |-> [frame |-> "text",
                          message |-> "Welcome, user_id: " \o sender_id[s] \o "!"]]
    /\ UNCHANGED <<router, kind, sender_id, target, send_pc, recv_pc, cancelled,
                   frame, inbox, lagged, registry, latest, frames, removes>>

\* The frame handle_socket answers a frame with: Binary of the echo (data is
\* the Debug form of the User row) for Text, Pong of the payload otherwise.
EchoReply(f, user_id, text) ==
    IF f = "text"
    THEN [frame |-> "binary", type |-> "echo",
          data |-> [user_id |-> user_id, user_name |-> user_name(user_id)],
          message |-> text]
    ELSE [frame |-> "pong", message |-> text]

\* handle_socket: Text, Binary or Ping is answered; a failed send ends the loop.
EchoFrame(s, f, text, ok) ==
    /\ kind[s] = "echo"
    /\ pc[s] = "echo"
    /\ frames < MaxFrames
    /\ frames' = frames + 1
    /\ pc' = [pc EXCEPT ![s] = IF ok THEN "echo" ELSE "closed"]
    /\ event' = [type |-> "write", slot |-> s, ok |-> ok,
                 msg |-> EchoReply(f, sender_id[s], text)]
    /\ UNCHANGED <<router, kind, sender_id, target, send_pc, recv_pc, cancelled,
                   frame, inbox, lagged, registry, latest, removes>>

\* handle_socket: Close, Some(Err) or None ends the loop.
EchoEnd(s, f) ==
    /\ kind[s] = "echo"
    /\ pc[s] = "echo"
    /\ pc' = [pc EXCEPT ![s] = "closed"]
    /\ event' = NoEvent
    /\ UNCHANGED <<router, kind, sender_id, target, send_pc, recv_pc, cancelled,
                   frame, inbox, lagged, registry, latest, frames, removes>>

\* handle_socket: `_ => {}` (a Pong frame).
EchoIgnored(s) ==
    /\ kind[s] = "echo"
    /\ pc[s] = "echo"
    /\ event' = [type |-> "ignored", slot |-> s]
    /\ UNCHANGED <<router, kind, sender_id, target, pc, send_pc, recv_pc,
                   cancelled, frame, inbox, lagged, registry, latest, frames, removes>>

\* ------------------------------------------------------------ specification
Next ==
    \/ \E s \in Slots, token \in Credentials,
          header \in {Missing, Malformed} \cup UserIds :
          ChatRequest(s, token, header)
    \/ \E s \in Slots, token \in Credentials,
          header \in {Missing, Malformed} \cup GroupIds :
          GroupRequest(s, token, header)
    \/ \E s \in Slots, token \in Credentials, user_id \in UserIds :
          WsRequest(s, token, user_id)
    \/ \E s \in Slots : Register(s)
    \/ \E s \in Slots : Select(s)
    \/ \E s \in Slots : Deregister(s)
    \/ \E s \in Slots, ok \in BOOLEAN : Forward(s, ok)
    \/ \E s \in Slots, text \in Texts : ChatText(s, text)
    \/ \E s \in Slots, f \in EndFrames : RecvEnd(s, f)
    \/ \E s \in Slots, f \in IgnoredFrames : RecvIgnored(s, f)
    \/ \E s \in Slots : AbortParked(s)
    \/ \E s \in Slots, timestamp \in Timestamps, ser_ok \in SerdeResults :
          Relay(s, timestamp, ser_ok)
    \/ \E s \in Slots, ser_ok \in SerdeResults : GroupStart(s, ser_ok)
    \/ \E s \in Slots, text \in Texts, ser_ok \in SerdeResults :
          GroupText(s, text, ser_ok)
    \/ \E s \in Slots, ok \in BOOLEAN : EchoStart(s, ok)
    \/ \E s \in Slots, f \in {"text", "binary", "ping"}, text \in Texts,
          ok \in BOOLEAN : EchoFrame(s, f, text, ok)
    \/ \E s \in Slots, f \in EndFrames : EchoEnd(s, f)
    \/ \E s \in Slots : EchoIgnored(s)

Spec == Init /\ [][Next]_vars

\* The scheduler runs every task that can run: the session function is
\* resumed once a join handle is ready, its cleanup runs, and a recv_task in
\* mid-relay finishes its relay.
Fairness ==
    /\ \A s \in Slots : WF_vars(Register(s))
    /\ \A s \in Slots : WF_vars(Select(s))
    /\ \A s \in Slots : WF_vars(Deregister(s))
    /\ \A s \in Slots : WF_vars(\E timestamp \in Timestamps, ser_ok \in SerdeResults :
                                    Relay(s, timestamp, ser_ok))

FairSpec == Spec /\ Fairness

\* ------------------------------------------------- the registry lock, fine
\* The guarded blocks cut in two: the step in which write().await or
\* read().await returns the guard, and the step that does the map operation and
\* drops the guard. Between the two the tasks of other sessions run.

\* Positions of the session function at which it owns the write guard: inside
\* the insert block and inside the remove block.
HoldsWrite_wide(p) == p \in {"inserting", "select", "removing"}
HoldsWrite(p) == p \in {"inserting", "removing"}

\* Position of recv_task at which it owns the read guard: inside send_to_user.
HoldsRead(p) == p = "sending"

WriteGuards == {s \in Slots : HoldsWrite(pc[s])}
ReadGuards == {s \in Slots : HoldsRead(recv_pc[s])}

\* RwLock: write() returns when no guard is out, read() when no write guard is.
CanWrite == WriteGuards = {} /\ ReadGuards = {}
CanRead_never == FALSE
CanRead == WriteGuards = {}

\* private_chat: state.connections.write().await returned (insert block).
WriteLockInsert(s) ==
    /\ kind[s] = "chat"
    /\ pc[s] = "upgraded"
    /\ CanWrite
    /\ pc' = [pc EXCEPT ![s] = "inserting"]
    /\ event' = NoEvent
    /\ UNCHANGED <<router, kind, sender_id, target, send_pc, recv_pc, cancelled,
                   frame, inbox, lagged, registry, latest, frames, removes>>

\* private_chat: connections.insert, the guard dropped, both tasks spawned.
InsertUnlock(s) ==
    /\ pc[s] = "inserting"
    /\ registry' = Insert(registry, sender_id[s], s)
    /\ latest' = [latest EXCEPT ![sender_id[s]] = s]
    /\ send_pc' = [send_pc EXCEPT ![s] = "recv"]
    /\ recv_pc' = [recv_pc EXCEPT ![s] = "next"]
    /\ pc' = [pc EXCEPT ![s] = "select"]
    /\ event' = [type |-> "insert", slot |-> s, had |-> Get(registry, sender_id[s])]
    /\ UNCHANGED <<router, kind, sender_id, target, cancelled, frame, inbox,
                   lagged, frames, removes>>

\* private_chat: state.connections.write().await returned (remove block).
WriteLockRemove(s) ==
    /\ pc[s] = "closing"
    /\ CanWrite
    /\ pc' = [pc EXCEPT ![s] = "removing"]
    /\ event' = NoEvent
    /\ UNCHANGED <<router, kind, sender_id, target, send_pc, recv_pc, cancelled,
                   frame, inbox, lagged, registry, latest, frames, removes>>

\* private_chat: connections.remove, the guard dropped, the function returns.
RemoveUnlock(s) ==
    /\ pc[s] = "removing"
    /\ registry' = Remove(registry, sender_id[s])
    /\ removes' = [removes EXCEPT ![s] = @ + 1]
    /\ pc' = [pc EXCEPT ![s] = AfterRemove]
    /\ event' = [type |-> "remove", slot |-> s, had |-> Get(registry, sender_id[s])]
    /\ UNCHANGED <<router, kind, sender_id, target, send_pc, recv_pc, cancelled,
                   frame, inbox, lagged, latest, frames>>

\* send_to_user: state.connections.read().await returned.
ReadLock(s) ==
    /\ recv_pc[s] = "relay"
    /\ CanRead
    /\ recv_pc' = [recv_pc EXCEPT ![s] = "sending"]
    /\ event' = NoEvent
    /\ UNCHANGED <<router, kind, sender_id, target, pc, send_pc, cancelled, frame,
                   inbox, lagged, registry, latest, frames, removes>>

\* send_to_user: get, build, serialize, tx.send; the guard dropped on return.
SendUnlock(s, timestamp, ser_ok) ==
    /\ recv_pc[s] = "sending"
    /\ LET on == send_to_user(registry, sender_id[s], target[s])
           to == {c \in on : RxAlive(c)}
           msg == chat_response(
                      ChatMessage(sender_id[s], target[s], frame[s], timestamp),
                      ser_ok)
       IN  /\ inbox' = tx_send(inbox, to, msg)
           /\ lagged' = tx_lag(lagged, inbox, to)
           /\ event' = [type |-> "relay", slot |-> s, message |-> frame[s],
                        on |-> on, to |-> to]
    /\ recv_pc' = [recv_pc EXCEPT ![s] = IF cancelled[s] THEN "aborted" ELSE "next"]
    /\ cancelled' = [cancelled EXCEPT ![s] = FALSE]
    /\ frame' = [frame EXCEPT ![s] = ""]
    /\ UNCHANGED <<router, kind, sender_id, target, pc, send_pc, registry, latest,
                   frames, removes>>

\* The private chat with the guarded blocks cut in two.
LockNext ==
    \/ \E s \in Slots, token \in Credentials,
          header \in {Missing, Malformed} \cup UserIds :
          ChatRequest(s, token, header)
    \/ \E s \in Slots : WriteLockInsert(s)
    \/ \E s \in Slots : InsertUnlock(s)
    \/ \E s \in Slots : Select(s)
    \/ \E s \in Slots : WriteLockRemove(s)
    \/ \E s \in Slots : RemoveUnlock(s)
    \/ \E s \in Slots, ok \in BOOLEAN : Forward(s, ok)
    \/ \E s \in Slots, text \in Texts : ChatText(s, text)
    \/ \E s \in Slots, f \in EndFrames : RecvEnd(s, f)
    \/ \E s \in Slots, f \in IgnoredFrames : RecvIgnored(s, f)
    \/ \E s \in Slots : AbortParked(s)
    \/ \E s \in Slots : ReadLock(s)
    \/ \E s \in Slots, timestamp \in Timestamps, ser_ok \in SerdeResults :
          SendUnlock(s, timestamp, ser_ok)

LockSpec == Init /\ [][LockNext]_vars

\* The owner of a guard is at no await point and runs on to the end of its
\* block; a waiter that the lock can serve from some moment on is served (the
\* RwLock queues its waiters first come, first served, which gives more).
LockFairness ==
    /\ \A s \in Slots : WF_vars(InsertUnlock(s))
    /\ \A s \in Slots : WF_vars(RemoveUnlock(s))
    /\ \A s \in Slots : WF_vars(\E timestamp \in Timestamps, ser_ok \in SerdeResults :
                                    SendUnlock(s, timestamp, ser_ok))
    /\ \A s \in Slots : WF_vars(WriteLockInsert(s))
    /\ \A s \in Slots : WF_vars(WriteLockRemove(s))
    /\ \A s \in Slots : WF_vars(ReadLock(s))

FairLockSpec == LockSpec /\ LockFairness

\* ------------------------------------------------- frames in a known order
\* The private chat with peers that send "hi" as the first frame and "yo" as
\* every later one: which of two envelopes was sent first shows in its text.
NthText(n) == IF n = 1 THEN "hi" ELSE "yo"

OrderNext ==
    \/ \E s \in Slots, token \in Credentials,
          header \in {Missing, Malformed} \cup UserIds :
          ChatRequest(s, token, header)
    \/ \E s \in Slots : Register(s)
    \/ \E s \in Slots : Select(s)
    \/ \E s \in Slots : Deregister(s)
    \/ \E s \in Slots, ok \in BOOLEAN : Forward(s, ok)
    \/ \E s \in Slots : ChatText(s, NthText(frames + 1))
    \/ \E s \in Slots, f \in EndFrames : RecvEnd(s, f)
    \/ \E s \in Slots, f \in IgnoredFrames : RecvIgnored(s, f)
    \/ \E s \in Slots : AbortParked(s)
    \/ \E s \in Slots, timestamp \in Timestamps, ser_ok \in SerdeResults :
          Relay(s, timestamp, ser_ok)

OrderSpec == Init /\ [][OrderNext]_vars

\* The group chat with text frames published in a known order: the first one
\* published, by whichever session, is "hi" and every later one is "yo".
GroupOrderNext ==
    \/ \E s \in Slots, token \in Credentials,
          header \in {Missing, Malformed} \cup GroupIds :
          GroupRequest(s, token, header)
    \/ \E s \in Slots, ser_ok \in SerdeResults : GroupStart(s, ser_ok)
    \/ \E s \in Slots : Select(s)
    \/ \E s \in Slots, ok \in BOOLEAN : Forward(s, ok)
    \/ \E s \in Slots, ser_ok \in SerdeResults :
          GroupText(s, NthText(frames + 1), ser_ok)
    \/ \E s \in Slots, f \in EndFrames : RecvEnd(s, f)
    \/ \E s \in Slots, f \in IgnoredFrames : RecvIgnored(s, f)

GroupOrderSpec == Init /\ [][GroupOrderNext]_vars

\* The private chat and the group chat together, with text frames arriving in a
\* known order, and a write loop that is scheduled whenever it has an envelope
\* to forward and whose peer takes the frame.
DrainNext ==
    \/ \E s \in Slots, token \in Credentials,
          header \in {Missing, Malformed} \cup UserIds :
          ChatRequest(s, token, header)
    \/ \E s \in Slots, token \in Credentials,
          header \in {Missing, Malformed} \cup GroupIds :
          GroupRequest(s, token, header)
    \/ \E s \in Slots : Register(s)
    \/ \E s \in Slots, ser_ok \in SerdeResults : GroupStart(s, ser_ok)
    \/ \E s \in Slots : Select(s)
    \/ \E s \in Slots : Deregister(s)
    \/ \E s \in Slots, ok \in BOOLEAN : Forward(s, ok)
    \/ \E s \in Slots : ChatText(s, NthText(frames + 1))
    \/ \E s \in Slots, ser_ok \in SerdeResults :
          GroupText(s, NthText(frames + 1), ser_ok)
    \/ \E s \in Slots, f \in EndFrames : RecvEnd(s, f)
    \/ \E s \in Slots, f \in IgnoredFrames : RecvIgnored(s, f)
    \/ \E s \in Slots : AbortParked(s)
    \/ \E s \in Slots, timestamp \in Timestamps, ser_ok \in SerdeResults :
          Relay(s, timestamp, ser_ok)

DrainFairness == \A s \in Slots : WF_vars(Forward(s, TRUE))

DrainSpec == Init /\ [][DrainNext]_vars /\ DrainFairness

\* The private chat and the group chat with a serializer that can fail:
\* serde_json::to_string returns Ok or Err at each of its three call sites.
SerdeNext ==
    \/ \E s \in Slots, token \in Credentials,
          header \in {Missing, Malformed} \cup UserIds :
          ChatRequest(s, token, header)
    \/ \E s \in Slots, token \in Credentials,
          header \in {Missing, Malformed} \cup GroupIds :
          GroupRequest(s, token, header)
    \/ \E s \in Slots : Register(s)
    \/ \E s \in Slots, ser_ok \in BOOLEAN : GroupStart(s, ser_ok)
    \/ \E s \in Slots : Select(s)
    \/ \E s \in Slots : Deregister(s)
    \/ \E s \in Slots, ok \in BOOLEAN : Forward(s, ok)
    \/ \E s \in Slots : ChatText(s, NthText(frames + 1))
    \/ \E s \in Slots, ser_ok \in BOOLEAN :
          GroupText(s, NthText(frames + 1), ser_ok)
    \/ \E s \in Slots, f \in EndFrames : RecvEnd(s, f)
    \/ \E s \in Slots, f \in IgnoredFrames : RecvIgnored(s, f)
    \/ \E s \in Slots : AbortParked(s)
    \/ \E s \in Slots, timestamp \in Timestamps, ser_ok \in BOOLEAN :
          Relay(s, timestamp, ser_ok)

SerdeSpec == Init /\ [][SerdeNext]_vars

\* A private session of user a toward a itself whose peer has sent Capacity
\* text frames and taken none of the answers yet: the backlog of its Receiver
\* is full. No other connection has arrived.
OverflowInit ==
    /\ router = "routes"
    /\ kind = [s \in Slots |-> IF s = 1 THEN "chat" ELSE "none"]
    /\ sender_id = [s \in Slots |-> IF s = 1 THEN "a" ELSE NoId]
    /\ target = [s \in Slots |-> IF s = 1 THEN "a" ELSE NoId]
    /\ pc = [s \in Slots |-> IF s = 1 THEN "select" ELSE "idle"]
    /\ send_pc = [s \in Slots |-> IF s = 1 THEN "recv" ELSE "idle"]
    /\ recv_pc = [s \in Slots |-> IF s = 1 THEN "next" ELSE "idle"]
    /\ cancelled = [s \in Slots |-> FALSE]
    /\ frame = [s \in Slots |-> ""]
    /\ \E timestamp \in Timestamps :
          inbox = [s \in Slots |->
                      IF s = 1
                      THEN [i \in 1..Capacity |->
                               chat_response(ChatMessage("a", "a", "hi", timestamp), TRUE)]
                      ELSE << >>]
    /\ lagged = [s \in Slots |-> FALSE]
    /\ registry = [u \in UserIds |-> IF u = "a" THEN 1 ELSE NoSlot]
    /\ latest = [u \in UserIds |-> IF u = "a" THEN 1 ELSE NoSlot]
    /\ frames = 0
    /\ removes = [s \in Slots |-> 0]
    /\ event = NoEvent

\* The steps of the sessions that exist: no further connection arrives.
OverflowNext ==
    \/ \E s \in Slots : Select(s)
    \/ \E s \in Slots : Deregister(s)
    \/ \E s \in Slots, ok \in BOOLEAN : Forward(s, ok)
    \/ \E s \in Slots, text \in Texts : ChatText(s, text)
    \/ \E s \in Slots, f \in EndFrames : RecvEnd(s, f)
    \/ \E s \in Slots, f \in IgnoredFrames : RecvIgnored(s, f)
    \/ \E s \in Slots : AbortParked(s)
    \/ \E s \in Slots, timestamp \in Timestamps, ser_ok \in SerdeResults :
          Relay(s, timestamp, ser_ok)

OverflowSpec == OverflowInit /\ [][OverflowNext]_vars

\* ------------------------------------------------------------------ claims
\* Session states of the private chat session.
Connecting(s) == kind[s] = "chat" /\ pc[s] = "upgraded"
Active(s) == kind[s] = "chat" /\ pc[s] = "select"
Closing(s) == kind[s] = "chat" /\ pc[s] = "closing"
Closed(s) == kind[s] = "chat" /\ pc[s] = "closed"

\* The step in which session s relays the frame it holds (send_to_user).
RelayStep(s) ==
    /\ recv_pc[s] = "relay"
    /\ event'.type = "relay"
    /\ event'.slot = s

\* In the step, exactly one envelope carrying text is sent on channel c (and
\* queued for its receiver when that one is alive).
PublishedOnce(c, text) ==
    /\ c \in event'.on
    /\ RxAlive(c) =>
          /\ Len(inbox'[c]) = Len(inbox[c]) + 1
          /\ SubSeq(inbox'[c], 1, Len(inbox[c])) = inbox[c]
          /\ inbox'[c][Len(inbox'[c])].message = text

Range(f) == {f[i] : i \in DOMAIN f}

\* C1: when A and B (distinct) both have a registry entry, a text frame read
\* by A's session toward B puts exactly one envelope with the frame's text on
\* B's registered channel and exactly one echo on A's own registered channel.
C1_RelayReachesBothParties ==
    [][\A s \in Slots :
          ( /\ RelayStep(s)
            /\ sender_id[s] # target[s]
            /\ Get(registry, sender_id[s]) # NoSlot
            /\ Get(registry, target[s]) # NoSlot )
          => /\ PublishedOnce(Get(registry, target[s]), frame[s])
             /\ PublishedOnce(Get(registry, sender_id[s]), frame[s])]_vars

\* C2: when the receiver has no registry entry, the relay of a text frame
\* sends on no channel, changes no backlog and not the registry, keeps
\* nothing of the frame, and the relaying session goes on: an Active session
\* stays Active with its read loop back at reading frames. A channel
\* registered later starts empty.
C2_MissIsSilent ==
    [][\A s \in Slots :
          /\ ( RelayStep(s) /\ Get(registry, target[s]) = NoSlot )
             => /\ event'.on = {}
                /\ inbox' = inbox
                /\ lagged' = lagged
                /\ registry' = registry
                /\ frame'[s] = ""
                /\ pc' = pc
                /\ send_pc' = send_pc
                /\ Active(s) => Active(s)' /\ recv_pc'[s] = "next"
          /\ ( Connecting(s) /\ Active(s)' ) => inbox'[s] = << >>]_vars

C2_Witness ==
    /\ event.type = "relay"
    /\ event.on = {}
    /\ Active(event.slot)
    /\ recv_pc[event.slot] = "next"
    /\ Get(registry, target[event.slot]) = NoSlot

\* Two private sessions have registered under user u.
TwoRegistered(u) ==
    \E s1, s2 \in Slots :
        /\ s1 # s2
        /\ kind[s1] = "chat" /\ kind[s2] = "chat"
        /\ sender_id[s1] = u /\ sender_id[s2] = u
        /\ pc[s1] # "upgraded" /\ pc[s2] # "upgraded"

\* C3: when two private sessions have registered under the same user id, the
\* registry holds the later session's channel only, and every relay addressed
\* to that user (the later session being Active) is sent on the later
\* session's channel and never on the earlier one.
C3_LaterChannelGetsEveryRelay ==
    [][\A s \in Slots :
          ( /\ RelayStep(s)
            /\ TwoRegistered(target[s])
            /\ Active(latest[target[s]]) )
          => event'.on = {latest[target[s]]}]_vars

\* C4: a private session that reached Active removes the registry entry of
\* its user id once a loop has ended: the removal step leaves no entry for
\* the id, a session with an ended loop eventually is Closed, and when no
\* private session is between registration and Closed the registry is empty.
C4_CleanupAlwaysHappens ==
    /\ [][\A s \in Slots :
             ( Closing(s) /\ Closed(s)' ) => Get(registry', sender_id[s]) = NoSlot]_vars
    /\ []( ( \A s \in Slots : kind[s] = "chat" => pc[s] \in {"upgraded", "closed"} )
           => \A u \in UserIds : Get(registry, u) = NoSlot )
    /\ \A s \in Slots :
          ( Active(s) /\ (send_pc[s] = "done" \/ recv_pc[s] = "done") ) ~> Closed(s)

C4_Witness ==
    \E s \in Slots :
        /\ Closed(s)
        /\ removes[s] = 1
        /\ \A u \in UserIds : Get(registry, u) = NoSlot

\* C5: when both loops of a private session have ended by themselves (a read
\* error and a write error, in any order) the session does its cleanup once:
\* no session ever removes twice, a Closed session has removed exactly once
\* and its channel is not in the registry.
C5_ExactlyOneRemoval ==
    \A s \in Slots :
        /\ removes[s] <= 1
        /\ Closed(s) => removes[s] = 1
        /\ Closed(s) => \A u \in UserIds : Get(registry, u) # s
        /\ kind[s] = "chat" /\ pc[s] \in {"upgraded", "select", "closing"}
              => removes[s] = 0

C5_Witness ==
    \E s \in Slots :
        /\ Closed(s)
        /\ send_pc[s] = "done"
        /\ recv_pc[s] = "done"
        /\ removes[s] = 1

\* C6: a lookup after register(user_id, channel) returns that channel; a
\* lookup after deregister(user_id) returns nothing; deregister of an absent
\* user id leaves the registry as it was.
C6_RegistryAlgebra ==
    [][\A s \in Slots :
          /\ ( Connecting(s) /\ Active(s)' )
             => /\ Get(registry', sender_id[s]) = s
                /\ \A u \in UserIds \ {sender_id[s]} :
                      Get(registry', u) = Get(registry, u)
          /\ ( Closing(s) /\ Closed(s)' )
             => /\ Get(registry', sender_id[s]) = NoSlot
                /\ \A u \in UserIds \ {sender_id[s]} :
                      Get(registry', u) = Get(registry, u)
                /\ Get(registry, sender_id[s]) = NoSlot => registry' = registry]_vars

C6_Witness ==
    /\ event.type = "remove"
    /\ event.had = NoSlot
    /\ Closed(event.slot)
    /\ \E t \in Slots \ {event.slot} :
          /\ Closed(t)
          /\ sender_id[t] = sender_id[event.slot]
          /\ latest[sender_id[t]] = t

\* A connection whose request was rejected has no session, no task, no
\* Receiver and no registry entry.
NothingCreated(s) ==
    /\ kind[s] = "rejected"
    /\ pc[s] = "rejected"
    /\ send_pc[s] = "idle"
    /\ recv_pc[s] = "idle"
    /\ inbox[s] = << >>
    /\ \A u \in UserIds : Get(registry, u) # s

\* C7: a private-chat upgrade request whose receiver_id header is missing or
\* malformed is answered with a client error (400 once the caller is
\* verified) before any directory lookup, creates nothing, and leaves the
\* registry as it was.
C7_BadReceiverHeaderRejected ==
    /\ []( ( /\ event.type = "http"
             /\ event.route = "chat"
             /\ event.header \in {Missing, Malformed} )
           => /\ ~event.resp.upgrade
              /\ event.resp.status \in {400, 401}
              /\ Extensions(router, "chat", event.token).claims # NoId
                    => event.resp.status = 400
              /\ "validate_user" \notin Range(event.resp.trace)
              /\ "on_upgrade" \notin Range(event.resp.trace)
              /\ NothingCreated(event.slot) )
    /\ [][( /\ event'.type = "http"
            /\ event'.route = "chat"
            /\ event'.header \in {Missing, Malformed} )
          => /\ registry' = registry
             /\ inbox' = inbox
             /\ send_pc' = send_pc
             /\ recv_pc' = recv_pc]_vars
    /\ [](\A s \in Slots : kind[s] = "rejected" => NothingCreated(s))

C7_Witness ==
    /\ event.type = "http"
    /\ event.route = "chat"
    /\ event.header = Malformed
    /\ event.resp.status = 400
    /\ \E u \in UserIds : Get(registry, u) # NoSlot

C10_VerifiedBeforeLookup ==
    event.type = "http"
    => /\ ( \/ "validate_user" \in Range(event.resp.trace)
            \/ "get_by_id" \in Range(event.resp.trace)
            \/ event.resp.upgrade )
          => /\ verify_token(event.token)
             /\ event.resp.trace # << >>
             /\ event.resp.trace[1] = "verify_token"
       /\ ~verify_token(event.token)
          => /\ event.resp.status = 401
             /\ ~event.resp.upgrade

\* A group session whose Receiver is alive.
Subscribed(c) == kind[c] = "group" /\ send_pc[c] = "recv"

\* The welcome text group_chat builds for session s.
JoinText(s) ==
    "Welcome " \o user_name(sender_id[s]) \o " to " \o group_name(target[s])

\* C11: when a group session joins, its join announcement is appended to the
\* backlog of every session subscribed at that moment, whatever group id that
\* session connected with: the channel is shared by all group ids.
C11_JoinReachesEverySubscriber ==
    [][\A s \in Slots :
          ( kind[s] = "group" /\ pc[s] = "upgraded" /\ pc'[s] = "select" )
          => /\ event'.type = "join"
             /\ event'.slot = s
             /\ \A c \in Slots \ {s} :
                   Subscribed(c)
                   => /\ c \in event'.to
                      /\ Len(inbox'[c]) = Len(inbox[c]) + 1
                      /\ SubSeq(inbox'[c], 1, Len(inbox[c])) = inbox[c]
                      /\ inbox'[c][Len(inbox'[c])].message = JoinText(s)
                      /\ inbox'[c][Len(inbox'[c])].id = target[s]]_vars

C11_Witness ==
    /\ event.type = "join"
    /\ \E c \in event.to :
          /\ c # event.slot
          /\ target[c] # target[event.slot]
          /\ inbox[c] # << >>
          /\ inbox[c][Len(inbox[c])].message = JoinText(event.slot)

\* In the step, message m is appended once to the backlog of c.
AppendedOnce(c, m) ==
    /\ Len(inbox'[c]) = Len(inbox[c]) + 1
    /\ SubSeq(inbox'[c], 1, Len(inbox[c])) = inbox[c]
    /\ inbox'[c][Len(inbox'[c])] = m

\* C12: a text frame read by a group session is sent once on the shared
\* channel: it is appended once to the backlog of every session subscribed at
\* that moment, the originating session included, and to no other backlog; a
\* joining session gets its own join announcement as its first message.
C12_PublishReachesAllIncludingSelf ==
    [][\A s \in Slots :
          /\ ( event'.type = "publish" /\ event'.slot = s )
             => LET m == GroupMessage(sender_id[s], user_name(sender_id[s]),
                                      event'.message)
                IN  /\ kind[s] = "group"
                    /\ frames' = frames + 1
                    /\ event'.to = {c \in Slots : Subscribed(c)}
                    /\ Subscribed(s) => s \in event'.to
                    /\ \A c \in Slots :
                          IF Subscribed(c) THEN AppendedOnce(c, m)
                          ELSE inbox'[c] = inbox[c]
          /\ ( event'.type = "join" /\ event'.slot = s )
             => /\ s \in event'.to
                /\ inbox'[s] = <<GroupMessage(target[s], group_name(target[s]),
                                              JoinText(s))>>]_vars

C12_Witness ==
    /\ event.type = "publish"
    /\ event.slot \in event.to
    /\ \E c \in event.to :
          /\ c # event.slot
          /\ inbox[c] # << >>
          /\ inbox[c][Len(inbox[c])].message = event.message
          /\ inbox[event.slot][Len(inbox[event.slot])] = inbox[c][Len(inbox[c])]

\* C13: a backlog never holds more than Capacity messages; a message sent to a
\* full backlog takes the place of the oldest one; and the write loop of the
\* consumer ends only through a failed write to its peer, so an overrun
\* consumer goes on forwarding.
C13_OverflowIsLossyNotFatal ==
    /\ [](\A c \in Slots : Len(inbox[c]) <= Capacity)
    /\ [][\A c \in Slots :
             ( event'.type \in {"relay", "join", "publish"}
               /\ c \in event'.to
               /\ Len(inbox[c]) = Capacity )
             => /\ Len(inbox'[c]) = Capacity
                /\ SubSeq(inbox'[c], 1, Capacity - 1) = Tail(inbox[c])
                /\ send_pc'[c] = "recv"]_vars
    /\ [][\A c \in Slots :
             ( send_pc[c] = "recv" /\ send_pc'[c] = "done" )
             => /\ event'.type = "write"
                /\ event'.slot = c
                /\ ~event'.ok]_vars

Returned(s) == kind[s] \in {"chat", "group"} /\ pc[s] = "closed"

\* C15: when select! returns, the loop that has not finished is cancelled in
\* that step; a session that has returned relays or publishes no frame and
\* forwards no envelope, and the envelopes that were pending are gone.
C15_LoserCancelledAtOnce ==
    /\ [][\A s \in Slots :
             ( pc[s] = "select" /\ pc'[s] # "select" )
             => /\ send_pc'[s] \in {"done", "aborted"}
                /\ recv_pc'[s] \in {"done", "aborted"}
                /\ inbox'[s] = << >>]_vars
    /\ [][\A s \in Slots :
             Returned(s)
             => /\ ~( event'.type \in {"relay", "publish", "write"}
                      /\ event'.slot = s )
                /\ inbox'[s] = << >>]_vars

\* The moves of the session function of a private session.
SessionMoves ==
    { <<"idle", "upgraded">>, <<"upgraded", "select">>, <<"select", "closing">>,
      <<"closing", "closed">> }

\* C16: a private session goes Connecting, Active, Closing, Closed and no
\* other way: its channel is inserted in the step that makes it Active, with
\* both loops untouched before; it starts its cleanup only with a loop ended
\* and removes only in the step that makes it Closed; it inserts once, never
\* after it has removed; a Closed session stays Closed.
C16_SessionLifecycleOrder ==
    /\ [][\A s \in Slots :
             /\ ( kind'[s] = "chat" /\ pc'[s] # pc[s] )
                => <<pc[s], pc'[s]>> \in SessionMoves
             /\ ( Connecting(s) /\ Active(s)' )
                => /\ event' = [type |-> "insert", slot |-> s,
                                 had |-> Get(registry, sender_id[s])]
                   /\ Get(registry', sender_id[s]) = s
                   /\ removes[s] = 0
             /\ ( Active(s) /\ Closing(s)' )
                => send_pc[s] = "done" \/ recv_pc[s] = "done"
             /\ ( event'.type \in {"insert", "remove"} /\ event'.slot = s )
                => /\ kind[s] = "chat"
                   /\ IF event'.type = "insert"
                      THEN Connecting(s) /\ Active(s)'
                      ELSE Closing(s) /\ Closed(s)'
             /\ Closed(s) => Closed(s)' /\ removes'[s] = removes[s]]_vars
    /\ [](\A s \in Slots :
             Connecting(s)
             => /\ send_pc[s] = "idle"
                /\ recv_pc[s] = "idle"
                /\ frame[s] = ""
                /\ latest[sender_id[s]] # s)

C16_Witness ==
    /\ event.type = "remove"
    /\ Closed(event.slot)
    /\ event.had = event.slot
    /\ \E t \in Slots : Connecting(t) /\ sender_id[t] = sender_id[event.slot]

\* Await points: of the session function (the lock, select!), of recv_task
\* (the network read, the lock) and of send_task (the channel, the network
\* write).
FnAwaits == {"upgraded", "select", "closing"}
RecvAwaits == {"next", "relay"}
SendAwaits == {"recv"}

\* C17: a task that owns a guard of the registry lock is at no await point; a
\* write guard excludes every other guard; the owner can always go on to
\* its map operation without waiting for anything; and its next step does
\* that one operation (insert, remove, or lookup with send) and drops the
\* guard. send_task never owns a guard.
C17_NoLockAcrossAwait ==
    /\ [](\A s \in Slots :
             /\ HoldsWrite(pc[s]) => pc[s] \notin FnAwaits
             /\ HoldsRead(recv_pc[s]) => recv_pc[s] \notin RecvAwaits
             /\ HoldsWrite(pc[s]) => WriteGuards = {s} /\ ReadGuards = {}
             /\ pc[s] = "inserting" => ENABLED InsertUnlock(s)
             /\ pc[s] = "removing" => ENABLED RemoveUnlock(s)
             /\ recv_pc[s] = "sending"
                   => ENABLED (\E timestamp \in Timestamps, ser_ok \in SerdeResults :
                                  SendUnlock(s, timestamp, ser_ok)))
    /\ [][\A s \in Slots :
             /\ ( HoldsWrite(pc[s]) /\ pc'[s] # pc[s] )
                => /\ ~HoldsWrite(pc'[s])
                   /\ event'.type \in {"insert", "remove"}
                   /\ event'.slot = s
             /\ ( HoldsRead(recv_pc[s]) /\ recv_pc'[s] # recv_pc[s] )
                => /\ ~HoldsRead(recv_pc'[s])
                   /\ event'.type = "relay"
                   /\ event'.slot = s
             /\ ( event'.type \in {"insert", "remove"} /\ event'.slot = s )
                => HoldsWrite(pc[s])
             /\ ( event'.type = "relay" /\ event'.slot = s )
                => HoldsRead(recv_pc[s])]_vars

C17_Witness ==
    \E s, t \in Slots :
        /\ s # t
        /\ HoldsRead(recv_pc[s])
        /\ pc[t] = "closing"
        /\ send_pc[s] = "recv"
        /\ inbox[s] # << >>

\* The step in which send_task of c forwards an envelope to its peer.
ForwardStep(c) ==
    /\ send_pc[c] = "recv"
    /\ event'.type = "write"
    /\ event'.slot = c

\* At most one private session has connected as user u.
Sole(u) == Cardinality({s \in Slots : kind[s] = "chat" /\ sender_id[s] = u}) <= 1

\* send_task of c has just written an envelope of user u with this text.
Wrote(c, u, text) ==
    /\ event.type = "write"
    /\ event.slot = c
    /\ event.ok
    /\ kind[c] = "chat"
    /\ event.msg.sender_id = u
    /\ event.msg.message = text

\* C18: a private session relays the frames of its peer in the order they
\* came. With peers that send "hi" first and "yo" afterwards: in no channel
\* is a "yo" of a user's only session pending in front of its "hi", and once
\* a consumer has forwarded the "yo" it never forwards the "hi". Step by
\* step: recv_task takes the next frame only when it holds none; a relayed
\* envelope goes behind everything pending in the receiver's channel;
\* send_task forwards the envelope at the head and keeps the others in order.
C18_RelayKeepsPeerOrder ==
    /\ [](\A c \in Slots, u \in UserIds :
             Sole(u)
             => \A i, j \in DOMAIN inbox[c] :
                   ( /\ i < j
                     /\ kind[c] = "chat"
                     /\ inbox[c][i].sender_id = u
                     /\ inbox[c][j].sender_id = u )
                   => ~( inbox[c][i].message = "yo" /\ inbox[c][j].message = "hi" ))
    /\ \A c \in Slots, u \in UserIds :
          []( ( Sole(u) /\ Wrote(c, u, "yo") ) => [](~Wrote(c, u, "hi")) )
    /\ [][\A s \in Slots :
             /\ ( kind[s] = "chat" /\ frame'[s] # frame[s] /\ frame'[s] # "" )
                => /\ frame[s] = ""
                   /\ recv_pc[s] = "next"
                   /\ recv_pc'[s] = "relay"
                   /\ inbox' = inbox
             /\ RelayStep(s)
                => /\ frame[s] = event'.message
                   /\ \A c \in Slots :
                         IF c \in event'.to
                         THEN /\ AppendedOnce(c, inbox'[c][Len(inbox'[c])])
                              /\ inbox'[c][Len(inbox'[c])].message = frame[s]
                              /\ inbox'[c][Len(inbox'[c])].sender_id = sender_id[s]
                         ELSE inbox'[c] = inbox[c]
             /\ ( kind[s] = "chat" /\ ForwardStep(s) )
                => /\ event'.msg = Head(inbox[s])
                   /\ event'.ok => inbox'[s] = Tail(inbox[s])]_vars

C18_Witness ==
    /\ event.type = "relay"
    /\ \E c \in event.to :
          /\ c # event.slot
          /\ Len(inbox[c]) = 2
          /\ inbox[c][1].sender_id = sender_id[event.slot]
          /\ inbox[c][2].sender_id = sender_id[event.slot]
          /\ inbox[c][1].message # inbox[c][2].message
          /\ inbox[c][2].message = event.message

\* Sequence p is the end of sequence q.
IsSuffix(p, q) ==
    /\ Len(p) <= Len(q)
    /\ SubSeq(q, Len(q) - Len(p) + 1, Len(q)) = p

\* send_task of group session c has just written an envelope with this text.
WroteGroup(c, text) ==
    /\ event.type = "write"
    /\ event.slot = c
    /\ event.ok
    /\ kind[c] = "group"
    /\ event.msg.message = text

\* C19: every subscriber of the shared channel gets the envelopes in the
\* order they were published, whichever sessions published them: of two
\* subscribers' backlogs one is the end of the other; with "hi" published
\* before every "yo", no backlog holds a "yo" in front of the "hi" and no
\* subscriber forwards the "hi" after a "yo"; send_task forwards the head of
\* its backlog and keeps the rest in order.
C19_SameOrderForEverySubscriber ==
    /\ [](\A c1, c2 \in Slots :
             ( Subscribed(c1) /\ Subscribed(c2) )
             => IsSuffix(inbox[c1], inbox[c2]) \/ IsSuffix(inbox[c2], inbox[c1]))
    /\ [](\A c \in Slots :
             kind[c] = "group"
             => \A i, j \in DOMAIN inbox[c] :
                   i < j => ~( inbox[c][i].message = "yo"
                                /\ inbox[c][j].message = "hi" ))
    /\ \A c \in Slots : []( WroteGroup(c, "yo") => [](~WroteGroup(c, "hi")) )
    /\ [][\A c \in Slots :
             ( kind[c] = "group" /\ ForwardStep(c) )
             => /\ event'.msg = Head(inbox[c])
                /\ event'.ok => inbox'[c] = Tail(inbox[c])]_vars

C19_Witness ==
    /\ event.type = "publish"
    /\ event.message = "yo"
    /\ \E c1, c2 \in event.to :
          /\ c1 # c2
          /\ Len(inbox[c1]) >= 2
          /\ Len(inbox[c2]) > Len(inbox[c1])
          /\ inbox[c1][Len(inbox[c1]) - 1].message = "hi"
          /\ inbox[c1][Len(inbox[c1]) - 1].id # sender_id[event.slot]

\* An envelope carrying this text waits in the channel of session s, whose
\* send_task owns the Receiver.
Pending(s, text) ==
    /\ RxAlive(s)
    /\ \E i \in DOMAIN inbox[s] : inbox[s][i].message = text

\* send_task of session s has just written an envelope carrying this text.
WroteText(s, text) ==
    /\ event.type = "write"
    /\ event.slot = s
    /\ event.ok
    /\ event.msg.message = text

\* C20: with a write loop that gets its turn, a peer that takes the frames
\* and a backlog within the capacity, what is published on the channel of a
\* session comes out of send_task. An envelope that waits in the channel is
\* forwarded, unless send_task has ended before (the session left select!, or
\* a write failed); a backlog that is not empty leads to a write; the "hi",
\* published once, is never pending again after it was forwarded; and while
\* send_task lives its backlog changes only by a publish putting one envelope
\* behind the others and by send_task writing the head and keeping the rest.
C20_PublishedIsForwardedOnceInOrder ==
    /\ \A s \in Slots, text \in Texts :
          Pending(s, text) ~> ( WroteText(s, text) \/ ~RxAlive(s) )
    /\ \A s \in Slots :
          ( RxAlive(s) /\ inbox[s] # << >> )
          ~> ( (event.type = "write" /\ event.slot = s) \/ ~RxAlive(s) )
    /\ \A s \in Slots : []( WroteText(s, "hi") => [](~Pending(s, "hi")) )
    /\ [](\A s \in Slots : ~lagged[s] /\ Len(inbox[s]) <= Capacity)
    /\ [][\A s \in Slots :
             ( RxAlive(s) /\ RxAlive(s)' )
             => \/ inbox'[s] = inbox[s]
                \/ /\ ForwardStep(s)
                   /\ event'.ok
                   /\ event'.msg = Head(inbox[s])
                   /\ inbox'[s] = Tail(inbox[s])
                \/ /\ event'.type \in {"relay", "join", "publish"}
                   /\ s \in event'.to
                   /\ Len(inbox'[s]) = Len(inbox[s]) + 1
                   /\ SubSeq(inbox'[s], 1, Len(inbox[s])) = inbox[s]]_vars

C20_Witness ==
    \E s \in Slots :
        /\ WroteText(s, "hi")
        /\ Pending(s, "yo")
        /\ pc[s] = "select"

\* C21: a group session sends its join announcement once, in the step in
\* which it becomes active: it has subscribed by then (the announcement is the
\* first envelope of its own Receiver), neither of its loops has run, it
\* never becomes active a second time, and it publishes a frame of its peer
\* only after that step, behind everything pending in every backlog.
C21_OneJoinBeforeOwnMessages ==
    /\ [][\A s \in Slots :
             /\ ( event'.type = "join" /\ event'.slot = s )
                => /\ kind[s] = "group"
                   /\ pc[s] = "upgraded" /\ pc'[s] = "select"
                   /\ send_pc[s] = "idle" /\ recv_pc[s] = "idle"
                   /\ frame[s] = ""
                   /\ s \in event'.to
                   /\ Subscribed(s)'
                   /\ Len(inbox'[s]) = 1
                   /\ Head(inbox'[s]).message = JoinText(s)
             /\ ( kind[s] = "group" /\ pc[s] = "upgraded" /\ pc'[s] # "upgraded" )
                => event'.type = "join" /\ event'.slot = s
             /\ ( kind[s] = "group" /\ pc[s] # "upgraded" ) => pc'[s] # "upgraded"
             /\ ( event'.type = "publish" /\ event'.slot = s )
                => /\ pc[s] = "select"
                   /\ \A c \in event'.to :
                         /\ Len(inbox'[c]) = Len(inbox[c]) + 1
                         /\ inbox'[c][Len(inbox'[c])].id = sender_id[s]]_vars
    /\ [](\A s \in Slots :
             ( kind[s] = "group" /\ pc[s] = "upgraded" )
             => inbox[s] = << >> /\ ~Subscribed(s))

C21_Witness ==
    /\ event.type = "publish"
    /\ event.slot \in event.to
    /\ Len(inbox[event.slot]) >= 2
    /\ Head(inbox[event.slot]).message = JoinText(event.slot)
    /\ Head(inbox[event.slot]).id = target[event.slot]
    /\ inbox[event.slot][Len(inbox[event.slot])].id = sender_id[event.slot]

\* C22: in the read loop of a private or group session a binary, ping or
\* pong frame changes nothing: no channel, not the registry, no position of
\* any task, and the loop is back at reading frames; a close frame, a
\* transport error or the end of the stream ends the loop and sends nothing
\* on any channel.
C22_OtherFramesIgnored ==
    [][\A s \in Slots :
          /\ ( event'.type = "ignored" /\ event'.slot = s
                /\ kind[s] \in {"chat", "group"} )
             => /\ recv_pc[s] = "next" /\ recv_pc'[s] = "next"
                /\ UNCHANGED <<router, kind, sender_id, target, pc, send_pc,
                               recv_pc, cancelled, frame, inbox, lagged,
                               registry, latest, frames, removes>>
          /\ ( kind[s] \in {"chat", "group"}
                /\ recv_pc[s] = "next" /\ recv_pc'[s] = "done" )
             => /\ event'.type \notin {"relay", "publish", "join", "insert", "remove"}
                /\ UNCHANGED <<inbox, lagged, registry, latest, frame, frames,
                               pc, send_pc>>]_vars

C22_Witness ==
    /\ event.type = "ignored"
    /\ kind[event.slot] \in {"chat", "group"}
    /\ pc[event.slot] = "select"
    /\ recv_pc[event.slot] = "next"
    /\ inbox[event.slot] # << >>
    /\ \E t \in Slots : kind[t] \in {"chat", "group"} /\ recv_pc[t] = "done"

\* In the step one payload is put behind the backlog of c: it carries text,
\* and it has an error field exactly when the serializer failed.
OnePayload(c, text, ser_ok) ==
    /\ Len(inbox'[c]) = Len(inbox[c]) + 1
    /\ SubSeq(inbox'[c], 1, Len(inbox[c])) = inbox[c]
    /\ inbox'[c][Len(inbox'[c])].message = text
    /\ ("error" \in DOMAIN inbox'[c][Len(inbox'[c])]) <=> ~ser_ok

\* C23: a failing serializer drops nothing. A relay whose receiver has a
\* registry entry sends on that one channel, and a group publish or join
\* sends on the shared channel, one payload whether to_string returned Ok or
\* Err: every live Receiver of the channel gets exactly one more payload, it
\* carries the text, and on Err (and only then) it has an error field; no
\* other backlog changes.
C23_SerializationFailureKeepsMessage ==
    [][\A s \in Slots, ser_ok \in BOOLEAN :
          /\ \A timestamp \in Timestamps :
                ( Relay(s, timestamp, ser_ok) /\ Get(registry, target[s]) # NoSlot )
                => LET c == Get(registry, target[s])
                   IN  /\ event'.on = {c}
                       /\ RxAlive(c) => /\ OnePayload(c, frame[s], ser_ok)
                                        /\ inbox'[c][Len(inbox'[c])].sender_id
                                              = sender_id[s]
                                        /\ inbox'[c][Len(inbox'[c])].receiver_id
                                              = target[s]
                       /\ \A d \in Slots \ {c} : inbox'[d] = inbox[d]
          /\ \A text \in Texts :
                GroupText(s, text, ser_ok)
                => \A c \in Slots :
                      IF Subscribed(c) THEN OnePayload(c, text, ser_ok)
                      ELSE inbox'[c] = inbox[c]
          /\ GroupStart(s, ser_ok)
             => \A c \in Slots :
                   IF Subscribed(c) THEN OnePayload(c, JoinText(s), ser_ok)
                   ELSE IF c = s
                   THEN /\ Len(inbox'[c]) = 1
                        /\ inbox'[c][1].message = JoinText(s)
                        /\ ("error" \in DOMAIN inbox'[c][1]) <=> ~ser_ok
                   ELSE inbox'[c] = inbox[c]]_vars

C23_Witness ==
    /\ event.type \in {"relay", "publish"}
    /\ \E c \in event.to :
          /\ "error" \in DOMAIN inbox[c][Len(inbox[c])]
          /\ inbox[c][Len(inbox[c])].message = event.message
          /\ Len(inbox[c]) >= 2
          /\ "error" \notin DOMAIN inbox[c][Len(inbox[c]) - 1]

\* The step is one of connection s: its handler, its session function or one
\* of its tasks moved.
StepOf(s) ==
    \/ kind'[s] # kind[s]
    \/ pc'[s] # pc[s]
    \/ send_pc'[s] # send_pc[s]
    \/ recv_pc'[s] # recv_pc[s]
    \/ event'.type # "none" /\ event'.slot = s

\* C24: the group chat and the private chat share nothing. A step of a group
\* connection (handler, subscribe and join, publish, forward, shutdown)
\* leaves the registry and the backlog of every private session as they
\* were; the registry operations (insert, remove, the get of a relay) are
\* steps of private sessions only; and a relay is sent on the channel of a
\* private session only and leaves the backlog of every group session as it
\* was.
C24_GroupAndPrivateShareNothing ==
    [][\A s \in Slots :
          /\ ( kind'[s] = "group" /\ StepOf(s) )
             => /\ registry' = registry
                /\ latest' = latest
                /\ removes' = removes
                /\ event'.type \notin {"insert", "remove", "relay"}
                /\ \A c \in Slots : kind[c] = "chat" => /\ inbox'[c] = inbox[c]
                                                       /\ lagged'[c] = lagged[c]
          /\ ( event'.type \in {"insert", "remove", "relay"} /\ event'.slot = s )
             => kind[s] = "chat"
          /\ ( event'.type = "relay" /\ event'.slot = s )
             => /\ \A c \in event'.on : kind[c] = "chat"
                /\ \A c \in Slots : kind[c] = "group" => /\ inbox'[c] = inbox[c]
                                                        /\ lagged'[c] = lagged[c]]_vars

C24_Witness ==
    /\ event.type = "relay"
    /\ event.to # {}
    /\ \E c \in Slots :
          /\ Subscribed(c)
          /\ pc[c] = "select"
          /\ Len(inbox[c]) = 1
          /\ Head(inbox[c]).message = JoinText(c)

\* C25: a private message stays between the two parties of its conversation.
\* A relay of a session of A opened toward B is sent on no channel but the one
\* registered for B (or for A), and changes the backlog of no session of a
\* third user; and an envelope pending for a session that B opened toward C
\* is one of B itself or one of C.
C25_RoutedBetweenTheTwoParties ==
    /\ [][\A s \in Slots :
             RelayStep(s)
             => /\ event'.on \subseteq { Get(registry, target[s]),
                                         Get(registry, sender_id[s]) }
                /\ \A c \in Slots :
                      ( kind[c] = "chat"
                        /\ sender_id[c] \notin {sender_id[s], target[s]} )
                      => inbox'[c] = inbox[c]]_vars
    /\ [](\A c \in Slots :
             kind[c] = "chat"
             => \A i \in DOMAIN inbox[c] :
                   inbox[c][i].sender_id # sender_id[c]
                   => inbox[c][i].sender_id = target[c])

\* C26: the cleanup of a session removes the entry only when it is the one
\* this session inserted: with the entry overwritten by a newer session of the
\* same user id the registry stays as it was, and an Active session that
\* inserted last under its user id is the one the registry returns for it.
C26_RemovesOnlyOwnEntry ==
    /\ [][\A s \in Slots :
             ( Closing(s) /\ Closed(s)' )
             => IF Get(registry, sender_id[s]) = s
                THEN Get(registry', sender_id[s]) = NoSlot
                ELSE registry' = registry]_vars
    /\ [](\A s \in Slots :
             ( Active(s) /\ latest[sender_id[s]] = s )
             => Get(registry, sender_id[s]) = s)

\* C27: the registry holds no stale entry. The channel stored for user id u
\* is the one of a private session of u that has inserted, has not removed
\* and has not returned, and this session is the last that inserted under u.
C27_NoStaleEntry ==
    \A u \in UserIds :
        Get(registry, u) # NoSlot
        => LET s == Get(registry, u)
           IN  /\ kind[s] = "chat"
               /\ sender_id[s] = u
               /\ Active(s) \/ Closing(s)
               /\ removes[s] = 0
               /\ latest[u] = s

C27_Witness ==
    \E u \in UserIds, t \in Slots :
        /\ Get(registry, u) \notin {NoSlot, t}
        /\ Closing(Get(registry, u))
        /\ Closed(t)
        /\ sender_id[t] = u

\* C28: envelopes are attributed to the verified caller. A private session is
\* created only for a request whose bearer token verified, with the user id
\* of the token's claims as its sender_id, which it keeps; the envelope a
\* relay puts on a channel has the relaying session's sender_id and, as
\* receiver_id, the user id the channel is registered under; and every
\* pending envelope of a channel names the channel's user as receiver and a
\* user with a session of its own as sender.
C28_EnvelopeAttributedToVerifiedSender ==
    /\ [][\A s \in Slots :
             /\ ( event'.type = "http" /\ event'.slot = s
                   /\ event'.route = "chat" /\ event'.resp.upgrade )
                => /\ event'.token \in Users
                   /\ verify_token(event'.token)
                   /\ "verify_token" \in Range(event'.resp.trace)
                   /\ sender_id'[s] = event'.token
             /\ kind[s] = "chat" => sender_id'[s] = sender_id[s]
             /\ RelayStep(s)
                => \A c \in event'.to :
                      /\ Get(registry, inbox'[c][Len(inbox'[c])].receiver_id) = c
                      /\ inbox'[c][Len(inbox'[c])].receiver_id = sender_id[c]
                      /\ inbox'[c][Len(inbox'[c])].sender_id = sender_id[s]]_vars
    /\ [](\A c \in Slots :
             kind[c] = "chat"
             => \A i \in DOMAIN inbox[c] :
                   /\ inbox[c][i].receiver_id = sender_id[c]
                   /\ \E s \in Slots : /\ kind[s] = "chat"
                                        /\ sender_id[s] = inbox[c][i].sender_id
                                        /\ target[s] = sender_id[c])

C28_Witness ==
    /\ event.type = "relay"
    /\ \E c \in event.to :
          /\ sender_id[c] # sender_id[event.slot]
          /\ inbox[c][Len(inbox[c])].sender_id = sender_id[event.slot]
          /\ inbox[c][Len(inbox[c])].receiver_id = sender_id[c]

\* Tasks waiting at connections.write().await and at connections.read().await.
WaitsWrite(s) == kind[s] = "chat" /\ pc[s] \in {"upgraded", "closing"}
WaitsRead(s) == recv_pc[s] = "relay"

====
